---- MODULE Spec2Model ----
(***************************************************************************)
(* A model of wl_plotter.py: the water level / tidal constituent           *)
(* comparison script.  The numerical pipeline of main (warm-up cut, range  *)
(* restriction, resampling, join), the pointwise statistics of TSData, the *)
(* constituent selection of tidal_analysis and the constituent-wise        *)
(* statistics of tidal_error are operators; the station loop of main is    *)
(* the state machine Spec.                                                 *)
(*                                                                         *)
(* Time is counted in minutes.  A series is a sequence of samples          *)
(* [t, v, nan] sorted by strictly increasing t (xarray's time coordinate;  *)
(* open_csv sorts its index); nan marks a missing (NaN) value.             *)
(*                                                                         *)
(* The pandas calls are modelled by what pandas 1.x/2.x does:              *)
(*  - Resampler.asfreq / Resampler.interpolate go through                  *)
(*    DatetimeIndexResampler._upsample: the new index runs from the bin    *)
(*    holding the first timestamp to the bin holding the last one, bins    *)
(*    anchored at origin; when the series is itself regular at the target  *)
(*    frequency the values are kept and only relabelled with the bin       *)
(*    labels ("equal sampling"), otherwise the series is reindexed;        *)
(*  - interpolate(method='linear') fills by position, forward only: a      *)
(*    leading NaN stays, a trailing NaN takes the last valid value;        *)
(*  - DataFrame.asfreq reindexes onto date_range(first, last, freq);       *)
(*  - np.sum of a Series is Series.sum, which skips NaN.                   *)
(***************************************************************************)
EXTENDS Integers, Sequences, FiniteSets, TLC

VARIABLES pc, inp, out, idx, summary, tidal_summary, log

vars == <<pc, inp, out, idx, summary, tidal_summary, log>>

None == "None"

(***************************************************************************)
(* Exact arithmetic: a rational is [n, d] with d > 0.                      *)
(***************************************************************************)
Rat(n, d) == [n |-> n, d |-> d]

REq(a, b) == a.n * b.d = b.n * a.d

RLe(a, b) == a.n * b.d <= b.n * a.d

RAdd(a, b) == Rat(a.n * b.d + b.n * a.d, a.d * b.d)

Abs(x) == IF x < 0 THEN -x ELSE x

Max(S) == CHOOSE x \in S : \A y \in S : y <= x

Min(S) == CHOOSE x \in S : \A y \in S : x <= y

RECURSIVE SumSeq(_)
SumSeq(s) == IF s = << >> THEN 0 ELSE Head(s) + SumSeq(Tail(s))

(***************************************************************************)
(* Series.                                                                 *)
(***************************************************************************)
Sample(t, v) == [t |-> t, v |-> v, nan |-> FALSE]

Missing(t) == [t |-> t, v |-> 0, nan |-> TRUE]

Times(s) == {s[i].t : i \in DOMAIN s}

\* reindex: the sample at exactly timestamp g, NaN when there is none
SampleAt(s, g) ==
    IF \E i \in DOMAIN s : s[i].t = g
    THEN s[CHOOSE i \in DOMAIN s : s[i].t = g]
    ELSE Missing(g)

(***************************************************************************)
(* higher_resolution: the mode of the consecutive timestamp differences;   *)
(* np.unique sorts the values and argmax takes the first maximum, so a tie *)
(* goes to the smallest difference.                                        *)
(***************************************************************************)
mode(s) ==
    LET diff == [i \in 1..(Len(s) - 1) |-> s[i + 1].t - s[i].t]
        values == {diff[i] : i \in DOMAIN diff}
        counts(d) == Cardinality({i \in DOMAIN diff : diff[i] = d})
    IN  CHOOSE d \in values :
            \A e \in values :
                counts(d) > counts(e) \/ (counts(d) = counts(e) /\ d <= e)

\* which argument is returned: main tests the result with "is obs"
higher_resolution(df1, df2) ==
    IF mode(df1) < mode(df2) THEN "df1" ELSE "df2"

(***************************************************************************)
(* pandas resampling.                                                      *)
(***************************************************************************)
\* the label of the bin of width freq, anchored at origin, that holds t
BinLabel(t, origin, freq) == t - ((t - origin) % freq)

res_index(s, freq, origin) ==
    LET first == BinLabel(s[1].t, origin, freq)
        last == BinLabel(s[Len(s)].t, origin, freq)
    IN  [k \in 1..((last - first) \div freq + 1) |-> first + (k - 1) * freq]

\* ax.inferred_freq == freq: at least 3 timestamps, all one step apart
inferred_freq_is(s, freq) ==
    /\ Len(s) >= 3
    /\ \A i \in 1..(Len(s) - 1) : s[i + 1].t - s[i].t = freq

upsample(s, freq, origin) ==
    LET ri == res_index(s, freq, origin)
    IN  IF inferred_freq_is(s, freq) /\ Len(s) = Len(ri)
        THEN [k \in DOMAIN ri |-> [s[k] EXCEPT !.t = ri[k]]]
        ELSE [k \in DOMAIN ri |-> SampleAt(s, ri[k])]

\* a row of the resampled model: x is a rational
ModelRow(t, x) == [t |-> t, x |-> x, nan |-> FALSE]

interpolate(g) ==
    LET prev(k) == {i \in 1..(k - 1) : ~g[i].nan}
        next(k) == {j \in (k + 1)..Len(g) : ~g[j].nan}
    IN  [k \in DOMAIN g |->
            IF ~g[k].nan THEN ModelRow(g[k].t, Rat(g[k].v, 1))
            ELSE IF prev(k) = {} THEN [t |-> g[k].t, x |-> Rat(0, 1), nan |-> TRUE]
            ELSE LET i == Max(prev(k))
                 IN  IF next(k) = {} THEN ModelRow(g[k].t, Rat(g[i].v, 1))
                     ELSE LET j == Min(next(k))
                          IN  ModelRow(g[k].t,
                                       Rat(g[i].v * (j - k) + g[j].v * (k - i), j - i))]

asfreq(s, freq) ==
    LET first == s[1].t
        last == s[Len(s)].t
    IN  [k \in 1..((last - first) \div freq + 1) |-> SampleAt(s, first + (k - 1) * freq)]

\* model_data.join(obs_data, how='inner').sort_index().dropna()
join_dropna(model_data, obs_data) ==
    LET keep(r) == /\ ~r.nan
                   /\ \E j \in DOMAIN obs_data :
                          obs_data[j].t = r.t /\ ~obs_data[j].nan
        kept == SelectSeq(model_data, keep)
    IN  [k \in DOMAIN kept |->
            [t |-> kept[k].t, model |-> kept[k].x,
             observation |-> SampleAt(obs_data, kept[k].t).v]]

(***************************************************************************)
(* The alignment step of main for one station: model and obs are the       *)
(* series as read, cut the --cut option in hours.  kind is how the step    *)
(* ends: "ok" with the joined frame, one of the silent or printed skips    *)
(* (continue), or the exception that leaves main.                          *)
(***************************************************************************)
AlignResult(kind, branch, model, obs, modelfreq, joined) ==
    [kind |-> kind, branch |-> branch, model |-> model, obs |-> obs,
     modelfreq |-> modelfreq, joined |-> joined]

AlignStation(model0, obs0, cut) ==
    IF \A i \in DOMAIN model0 : model0[i].nan
    THEN AlignResult("skip_model_nan", None, model0, obs0, 0, << >>)
    ELSE
    LET cutter == 60 * cut
        afterCut(r) == r.t >= model0[1].t + cutter
        model == SelectSeq(model0, afterCut)
    IN  IF Len(model) < 2
        THEN AlignResult("IndexError", None, model, obs0, 0, << >>)
        ELSE
        LET modelfreq == model[2].t - model[1].t
            inRange(r) == /\ model[1].t <= r.t
                          /\ r.t <= model[Len(model)].t + modelfreq
            obs == SelectSeq(obs0, inRange)
        IN  IF Len(obs) <= 1
            THEN AlignResult("skip_obs", None, model, obs, modelfreq, << >>)
            ELSE
            LET obsfreq == obs[2].t - obs[1].t
                branch == IF higher_resolution(obs, model) = "df1"
                          THEN "snap_obs" ELSE "interpolate_model"
                obs_data == IF branch = "snap_obs"
                            THEN upsample(obs, modelfreq, model[1].t)
                            ELSE asfreq(obs, obsfreq)
                model_data == IF branch = "snap_obs"
                              THEN [k \in DOMAIN model |->
                                       [t |-> model[k].t, x |-> Rat(model[k].v, 1),
                                        nan |-> model[k].nan]]
                              ELSE interpolate(upsample(model, obsfreq, obs[1].t))
                joined == join_dropna(model_data, obs_data)
            IN  IF joined = << >>
                THEN AlignResult("skip_join", branch, model, obs, modelfreq, joined)
                ELSE AlignResult("ok", branch, model, obs, modelfreq, joined)

(***************************************************************************)
(* TSData.  The frame is [den, rows]: a row [t, model, observation] holds   *)
(* the two values as integer numerators over the common denominator den,   *)
(* so that interpolated values and the bias correction stay exact.         *)
(* A measure is one of                                                     *)
(*   [kind "rat", n, d]            the number n/d                          *)
(*   [kind "sqrt", scale, n, d]    the number scale * sqrt(n/d)            *)
(*   [kind "pearson", n, sxx, syy] the number n / sqrt(sxx * syy)          *)
(*   [kind "nan"], [kind "inf"], [kind "-inf"]   numpy's float results of  *)
(*                                 0/0, x/0 and -x/0                        *)
(***************************************************************************)
RECURSIVE Gcd(_, _)
Gcd(a, b) == IF b = 0 THEN a ELSE Gcd(b, a % b)

Lcm(a, b) == (a \div Gcd(a, b)) * b

RECURSIVE LcmSeq(_)
LcmSeq(s) == IF s = << >> THEN 1 ELSE Lcm(Head(s), LcmSeq(Tail(s)))

\* the joined frame of the alignment step as a frame over one denominator
Frame(joined) ==
    LET den == LcmSeq([k \in DOMAIN joined |-> joined[k].model.d])
    IN  [den |-> den,
         rows |-> [k \in DOMAIN joined |->
                      [t |-> joined[k].t,
                       model |-> joined[k].model.n * (den \div joined[k].model.d),
                       observation |-> joined[k].observation * den]]]

MRat(n, d) == [kind |-> "rat", n |-> n, d |-> d]

MSqrt(scale, n, d) == [kind |-> "sqrt", scale |-> scale, n |-> n, d |-> d]

MNaN == [kind |-> "nan"]

MInf == [kind |-> "inf"]

MNegInf == [kind |-> "-inf"]

\* TSData.__init__: the frame is copied; with bias_correct the mean of
\* model - observation is added to the observation channel
TSData(datum, station_id, data, bias_correct) ==
    LET N == Len(data.rows)
        shift == SumSeq([k \in DOMAIN data.rows |->
                            data.rows[k].model - data.rows[k].observation])
    IN  [datum |-> datum, station_id |-> station_id, bias_correct |-> bias_correct,
         data |-> IF bias_correct
                  THEN [den |-> data.den * N,
                        rows |-> [k \in DOMAIN data.rows |->
                                     [t |-> data.rows[k].t,
                                      model |-> data.rows[k].model * N,
                                      observation |-> data.rows[k].observation * N + shift]]]
                  ELSE data]

predicted(d) == [k \in DOMAIN d.data.rows |-> d.data.rows[k].model]

observed(d) == [k \in DOMAIN d.data.rows |-> d.data.rows[k].observation]

SumSqDiff(d) ==
    SumSeq([k \in DOMAIN d.data.rows |->
               (predicted(d)[k] - observed(d)[k]) * (predicted(d)[k] - observed(d)[k])])

\* mean of an empty frame is NaN
bias(d) ==
    IF d.data.rows = << >> THEN MNaN
    ELSE MRat(SumSeq([k \in DOMAIN d.data.rows |-> predicted(d)[k] - observed(d)[k]]),
              Len(d.data.rows) * d.data.den)

rmse(d) ==
    IF d.data.rows = << >> THEN MNaN
    ELSE MSqrt(1, SumSqDiff(d), Len(d.data.rows) * d.data.den * d.data.den)

\* skill without the complement: n / d in place of 1 - n / d
skill_ratio_only(d) ==
    LET N == Len(d.data.rows)
        n == N * N * SumSqDiff(d)
        So == SumSeq(observed(d))
        dd == SumSeq([k \in DOMAIN d.data.rows |->
                         (Abs(N * predicted(d)[k] - So) + Abs(N * observed(d)[k] - So))
                         * (Abs(N * predicted(d)[k] - So) + Abs(N * observed(d)[k] - So))])
    IN  IF dd = 0 THEN (IF n = 0 THEN MNaN ELSE MNegInf)
        ELSE MRat(n, dd)

skill(d) ==
    LET N == Len(d.data.rows)
        n == N * N * SumSqDiff(d)
        So == SumSeq(observed(d))
        dd == SumSeq([k \in DOMAIN d.data.rows |->
                         (Abs(N * predicted(d)[k] - So) + Abs(N * observed(d)[k] - So))
                         * (Abs(N * predicted(d)[k] - So) + Abs(N * observed(d)[k] - So))])
    IN  IF dd = 0 THEN (IF n = 0 THEN MNaN ELSE MNegInf)
        ELSE MRat(dd - n, dd)

\* scipy.stats.pearsonr: ValueError below 2 samples, nan for a constant input
corr(d) ==
    LET N == Len(d.data.rows)
        Sp == SumSeq(predicted(d))
        So == SumSeq(observed(d))
        sxx == SumSeq([k \in DOMAIN d.data.rows |->
                          (N * predicted(d)[k] - Sp) * (N * predicted(d)[k] - Sp)])
        syy == SumSeq([k \in DOMAIN d.data.rows |->
                          (N * observed(d)[k] - So) * (N * observed(d)[k] - So)])
        sxy == SumSeq([k \in DOMAIN d.data.rows |->
                          (N * predicted(d)[k] - Sp) * (N * observed(d)[k] - So)])
    IN  IF N < 2 THEN [kind |-> "ValueError"]
        ELSE IF sxx = 0 \/ syy = 0 THEN MNaN
        ELSE [kind |-> "pearson", n |-> sxy, sxx |-> sxx, syy |-> syy]

\* range().observation as a numerator over data.den
range_observation(d) ==
    LET o == {observed(d)[k] : k \in DOMAIN d.data.rows}
    IN  Max(o) - Min(o)

nrmse(d) ==
    IF d.data.rows = << >> THEN MNaN
    ELSE IF range_observation(d) = 0
         THEN (IF SumSqDiff(d) = 0 THEN MNaN ELSE MInf)
         ELSE MSqrt(100, SumSqDiff(d),
                    Len(d.data.rows) * range_observation(d) * range_observation(d))

\* main: measures = (d.bias(), d.corr()[0], d.rmse(), d.nrmse(), d.skill());
\* the exception of corr leaves the expression
measures(d) ==
    IF corr(d).kind = "ValueError" THEN [kind |-> "ValueError"]
    ELSE [kind |-> "ok", bias |-> bias(d), corr |-> corr(d), rmse |-> rmse(d),
          nrmse |-> nrmse(d), skill |-> skill(d)]

IsZero(m) ==
    \/ m.kind = "rat" /\ m.n = 0
    \/ m.kind = "sqrt" /\ (m.n = 0 \/ m.scale = 0)

IsOne(m) ==
    \/ m.kind = "rat" /\ m.n = m.d
    \/ m.kind = "pearson" /\ m.n > 0 /\ m.n * m.n = m.sxx * m.syy

(***************************************************************************)
(* tidal_analysis: the constituents solved for.  noaa_constituents is the   *)
(* list the library exports, each constituent standing for str(c), its     *)
(* name; MINHOURS is looked up by that exact string.                       *)
(***************************************************************************)
MINHOURS ==
    [c \in {"M2", "M4", "M6", "M8"} |-> 12] @@ ("K1" :> 27) @@ ("S6" :> 118)
    @@ [c \in {"2MK3", "MK3", "O1", "OO1"} |-> 329] @@ ("2Q1" :> 332)
    @@ [c \in {"2SM2", "MS4", "S2", "S4"} |-> 356]
    @@ [c \in {"M1", "M3"} |-> 656]
    @@ [c \in {"J1", "MN4", "N2", "Q1"} |-> 663]
    @@ [c \in {"L2", "MM", "MU2"} |-> 764]
    @@ [c \in {"K2", "MF", "MSF", "P1"} |-> 4383]
    @@ [c \in {"2N2", "LAMBDA2", "NU2", "RHO1"} |-> 4942]

PLOT_CONSTITUENTS == <<"M2", "S2", "N2", "K2", "O1", "K1", "Q1", "P1">>

\* The list pytides.constituent.noaa is data of the library, not of this
\* program: the selection takes it as an input.  pytides_noaa spells the 37
\* constituents as the library names them.
pytides_noaa ==
    <<"M2", "S2", "N2", "K1", "M4", "O1", "M6", "MK3", "S4", "MN4", "nu2", "S6",
      "mu2", "2N2", "OO1", "lambda2", "S1", "M1", "J1", "Mm", "Ssa", "Sa", "MSF",
      "Mf", "rho1", "Q1", "T2", "R2", "2Q1", "P1", "2SM2", "M3", "L2", "2MK3",
      "K2", "M8", "MS4">>

\* str.upper on the names of the list: the spelling of the keys of MINHOURS
UpperCase(name) ==
    CASE name = "nu2" -> "NU2"
      [] name = "mu2" -> "MU2"
      [] name = "lambda2" -> "LAMBDA2"
      [] name = "rho1" -> "RHO1"
      [] name = "Mm" -> "MM"
      [] name = "Mf" -> "MF"
      [] name = "Ssa" -> "SSA"
      [] name = "Sa" -> "SA"
      [] OTHER -> name

\* the same list with every name spelled in upper case
upper_noaa == [i \in DOMAIN pytides_noaa |-> UpperCase(pytides_noaa[i])]

\* thrs, in minutes: last minus first timestamp of the frame
thrs_minutes(d) == d.data.rows[Len(d.data.rows)].t - d.data.rows[1].t

\* thrs >= hours, thrs being thrs_minutes / 60
thrs_ge(d, hours) == thrs_minutes(d) >= 60 * hours

\* minh = MINHOURS.get(str(c)) is None when c is no key of MINHOURS
tidal_analysis_constituents(d, noaa_constituents) ==
    LET chosen(c) ==
            IF c \in DOMAIN MINHOURS /\ MINHOURS[c] # 0 /\ thrs_ge(d, MINHOURS[c])
            THEN TRUE
            ELSE c \notin DOMAIN MINHOURS /\ thrs_ge(d, 24 * 366)
    IN  SelectSeq(noaa_constituents, chosen)

(***************************************************************************)
(* Tide.decompose (pytides) solves the constituents it is asked for that   *)
(* complete more than n_period cycles within the record:                   *)
(* 360 * n_period < hours * speed.  Only the constituents of               *)
(* PLOT_CONSTITUENTS are followed after tidal_analysis, so the speeds are  *)
(* given for these, in thousandths of a degree per hour.                   *)
(***************************************************************************)
speed ==
    "M2" :> 28984 @@ "S2" :> 30000 @@ "N2" :> 28440 @@ "K2" :> 30082 @@
    "O1" :> 13943 @@ "K1" :> 15041 @@ "Q1" :> 13399 @@ "P1" :> 14959

\* the constituents of PLOT_CONSTITUENTS in the tables tidal_analysis returns
solved_plotted(d, noaa_constituents, n_period) ==
    LET requested == tidal_analysis_constituents(d, noaa_constituents)
    IN  {c \in {PLOT_CONSTITUENTS[i] : i \in DOMAIN PLOT_CONSTITUENTS} :
            /\ \E j \in DOMAIN requested : requested[j] = c
            /\ 360 * 60 * 1000 * n_period < thrs_minutes(d) * speed[c]}

(***************************************************************************)
(* Constituent-wise statistics.  A column of the pivot table is a sequence *)
(* over the stations of the table of entries [v, nan]; nan marks a         *)
(* constituent that was not solved for that station.                       *)
(***************************************************************************)
Entry(v) == [v |-> v, nan |-> FALSE]

NaNEntry == [v |-> 0, nan |-> TRUE]

\* elementwise a - b of two columns; NaN when either side is NaN
ColSub(a, b) ==
    [i \in DOMAIN a |->
        IF a[i].nan \/ b[i].nan THEN NaNEntry ELSE Entry(a[i].v - b[i].v)]

\* the two masked assignments, one after the other; NaN compares false
phase_correct(pdiff) ==
    LET step1 == [i \in DOMAIN pdiff |->
                     IF ~pdiff[i].nan /\ pdiff[i].v > 180
                     THEN Entry(360 - pdiff[i].v) ELSE pdiff[i]]
    IN  [i \in DOMAIN step1 |->
            IF ~step1[i].nan /\ step1[i].v < -180
            THEN Entry(360 + step1[i].v) ELSE step1[i]]

\* sum of rationals over the entries that are not NaN (Series.sum skips NaN)
RECURSIVE RSumSkipNaN(_)
RSumSkipNaN(s) ==
    IF s = << >> THEN Rat(0, 1)
    ELSE IF Head(s).nan THEN RSumSkipNaN(Tail(s))
    ELSE RAdd(Head(s).v, RSumSkipNaN(Tail(s)))

RDivInt(a, k) == Rat(a.n, a.d * k)

mae_phase(model, obs) ==
    LET pd == phase_correct(ColSub(obs, model))
        tmp == [i \in DOMAIN pd |->
                   IF pd[i].nan THEN NaNEntry ELSE Entry(Rat(Abs(pd[i].v), 1))]
    IN  RDivInt(RSumSkipNaN(tmp), Len(tmp))

mre(model, obs) ==
    LET diff == ColSub(obs, model)
        tmp == [i \in DOMAIN diff |->
                   IF diff[i].nan THEN NaNEntry
                   ELSE Entry(Rat(Abs(diff[i].v), obs[i].v))]
    IN  RDivInt(RSumSkipNaN(tmp), Len(tmp))

\* 2 * cos(pi * deg / 180) for the angles whose cosine is rational
TwoCos(deg) ==
    CASE Abs(deg) = 0 -> 2
      [] Abs(deg) = 60 -> 1
      [] Abs(deg) = 90 -> 0
      [] Abs(deg) = 120 -> -1
      [] Abs(deg) = 180 -> -2

\* the exact square root of a perfect square
ISqrt(n) == CHOOSE r \in 0..n : r * r = n

IsSquare(n) == \E r \in 0..n : r * r = n

\* twice the term under the root: Am^2 + An^2 - Am * An * 2cos(dphase)
Term2(Am, An, dphase) == Am * Am + An * An - Am * An * TwoCos(dphase)

\* the mean taken over the pairs without a missing entry only
mean_rmse_over_present(Am, An, Pm, Pn) ==
    LET pd == phase_correct(ColSub(Pm, Pn))
        roots == [i \in DOMAIN pd |->
                     IF pd[i].nan \/ Am[i].nan \/ An[i].nan THEN NaNEntry
                     ELSE Entry(Rat(ISqrt(Term2(Am[i].v, An[i].v, pd[i].v)), 1))]
    IN  RDivInt(RSumSkipNaN(roots),
                Max({1, Cardinality({i \in DOMAIN roots : ~roots[i].nan})}))

\* the result n/d stands for (n/d) / sqrt(2): each root is
\* sqrt(Term2 / 2) = ISqrt(Term2) / sqrt(2)
mean_rmse(Am, An, Pm, Pn) ==
    LET pd == phase_correct(ColSub(Pm, Pn))
        roots == [i \in DOMAIN pd |->
                     IF pd[i].nan \/ Am[i].nan \/ An[i].nan THEN NaNEntry
                     ELSE Entry(Rat(ISqrt(Term2(Am[i].v, An[i].v, pd[i].v)), 1))]
    IN  RDivInt(RSumSkipNaN(roots), Len(roots))

\* tidal_error for one constituent of the comparison set: M and O are its
\* columns of the two pivot tables, [phase, amplitude].  The constituent is
\* among _const only when it is a column of M.
tidal_error(M, O) ==
    IF \A i \in DOMAIN M.phase : M.phase[i].nan
    THEN [kind |-> "no_row"]
    ELSE [kind |-> "row",
          MAE |-> mae_phase(M.phase, O.phase),
          MRE |-> mre(M.amplitude, O.amplitude),
          MRMSE |-> mean_rmse(M.amplitude, O.amplitude, M.phase, O.phase)]

(***************************************************************************)
(* Input series.  Timestamps lie on a grid of TickMinutes; a series starts *)
(* at start, takes one first step and then regular steps (so the first     *)
(* difference need not be the modal one); one sample may be missing from   *)
(* the record (hole) and one may hold NaN.                                 *)
(***************************************************************************)
TickMinutes == 30

MaxLen == 4

Steps == {1, 2, 3}

ObsStarts == {-1, 0, 1}

Cuts == {0, 1}

GenTimes(tick, start, first, step, n) ==
    [k \in 1..n |->
        tick * (IF k = 1 THEN start ELSE start + first + (k - 2) * step)]

RemoveAt(s, h) ==
    IF h \in DOMAIN s
    THEN [k \in 1..(Len(s) - 1) |-> IF k < h THEN s[k] ELSE s[k + 1]]
    ELSE s

ModelValue(t) == (((t \div 30) * (t \div 30)) % 7) + 1

ObsValue(t) == ((3 * (t \div 30) + 2) % 5) + 1

ModelSeries ==
    {LET ts == GenTimes(TickMinutes, 0, f, d, n)
     IN  [k \in DOMAIN ts |->
            IF allnan THEN Missing(ts[k]) ELSE Sample(ts[k], ModelValue(ts[k]))] :
        f \in Steps, d \in Steps, n \in 0..MaxLen, allnan \in BOOLEAN}

ObsSeries ==
    {LET ts == RemoveAt(GenTimes(TickMinutes, s, f, d, n), hole)
     IN  [k \in DOMAIN ts |->
            IF k = nanAt THEN Missing(ts[k]) ELSE Sample(ts[k], ObsValue(ts[k]))] :
        s \in ObsStarts, f \in Steps, d \in Steps, n \in 0..MaxLen,
        hole \in {0, 2, 3}, nanAt \in {0, 2}}

AlignInputs ==
    {[model |-> m, obs |-> o, cut |-> c] : m \in ModelSeries, o \in ObsSeries, c \in Cuts}

(***************************************************************************)
(* SpecAlign: the alignment step applied to every input pair.              *)
(***************************************************************************)
InitAlign ==
    /\ pc = "ready"
    /\ inp \in AlignInputs
    /\ out = None
    /\ idx = 0
    /\ summary = << >>
    /\ tidal_summary = << >>
    /\ log = << >>

DoAlign ==
    /\ pc = "ready"
    /\ out' = AlignStation(inp.model, inp.obs, inp.cut)
    /\ pc' = "done"
    /\ UNCHANGED <<inp, idx, summary, tidal_summary, log>>

SpecAlign == InitAlign /\ [][DoAlign]_vars

(***************************************************************************)
(* Properties of the alignment step (checked under SpecAlign).             *)
(***************************************************************************)
Aligned == pc = "done" /\ out.kind = "ok"

JoinedTimes == [k \in DOMAIN out.joined |-> out.joined[k].t]

\* C1: every AlignedPair has one index for both channels, no missing value,
\* and a regular, gap-free index: all consecutive timestamps are separated by
\* the same interval, also when the observation record has missing samples.
C1_AlignedPairRegularGapFree ==
    Aligned =>
        /\ \A k \in DOMAIN out.joined : out.joined[k].model.d > 0
        /\ \A k \in 1..(Len(out.joined) - 1) : JoinedTimes[k] < JoinedTimes[k + 1]
        /\ \A k \in 1..(Len(out.joined) - 2) :
               JoinedTimes[k + 1] - JoinedTimes[k] = JoinedTimes[k + 2] - JoinedTimes[k + 1]

\* an input observation sample with this value exists at timestamp row.t
IsObsSample(row) ==
    \E i \in DOMAIN inp.obs :
        /\ inp.obs[i].t = row.t
        /\ ~inp.obs[i].nan
        /\ inp.obs[i].v = row.observation

\* the model value of the row is the model sample at timestamp row.t
IsModelSample(row) ==
    \E i \in DOMAIN inp.model :
        /\ inp.model[i].t = row.t
        /\ ~inp.model[i].nan
        /\ REq(row.model, Rat(inp.model[i].v, 1))

\* C2: the resampling direction follows the policy: with the observation the
\* lower-resolution series the model is the series that is resampled, with the
\* model the lower-resolution series the observation is snapped onto the model
\* grid and the model values pass through unchanged; in both directions every
\* observation value of the AlignedPair is an input observation sample at that
\* same timestamp.
C2_ResamplingPolicy ==
    Aligned =>
        /\ mode(out.obs) > mode(out.model) => out.branch = "interpolate_model"
        /\ mode(out.model) > mode(out.obs) =>
               /\ out.branch = "snap_obs"
               /\ \A k \in DOMAIN out.joined : IsModelSample(out.joined[k])
        /\ \A k \in DOMAIN out.joined : IsObsSample(out.joined[k])

\* C4: with fewer than 2 model samples (after the cut) or observation samples
\* (after the range restriction), or with an empty join, the alignment ends in
\* the alignment failure outcome (the station is skipped by the alignment
\* step), never in another failure and never in a result.
C4_AlignmentErrorOnShortInput ==
    pc = "done" =>
        ((Len(out.model) < 2 \/ Len(out.obs) < 2 \/ out.joined = << >>)
            => out.kind \in {"skip_model_nan", "skip_obs", "skip_join"})

\* C10: every timestamp of an AlignedPair lies in the intersection of the two
\* input ranges: between the later of the first model (after the cut) and first
\* observation timestamps and the earlier of the two last timestamps.
C10_WithinIntersection ==
    Aligned =>
        \A k \in DOMAIN out.joined :
            /\ out.model[1].t <= JoinedTimes[k]
            /\ inp.obs[1].t <= JoinedTimes[k]
            /\ JoinedTimes[k] <= out.model[Len(out.model)].t
            /\ JoinedTimes[k] <= inp.obs[Len(inp.obs)].t

(***************************************************************************)
(* SpecStats: the pointwise statistics applied to every small frame.       *)
(***************************************************************************)
MaxN == 3

MaxVal == 3

\* the scenario of the specification: hourly steps, values 1..5
Scenario == [k \in 1..5 |-> [t |-> 60 * (k - 1), model |-> k, observation |-> k]]

StatsFrame(n, m, o) ==
    [k \in 1..n |-> [t |-> 60 * (k - 1), model |-> m[k], observation |-> o[k]]]

StatsInput(rows, b) == [data |-> [den |-> 1, rows |-> rows], bias_correct |-> b]

InitStats ==
    /\ pc = "ready"
    /\ \E b \in BOOLEAN :
           \/ \E n \in 1..MaxN :
                  \E m \in [1..n -> 1..MaxVal], o \in [1..n -> 1..MaxVal] :
                      inp = StatsInput(StatsFrame(n, m, o), b)
           \/ inp = StatsInput(Scenario, b)
    /\ out = None
    /\ idx = 0
    /\ summary = << >>
    /\ tidal_summary = << >>
    /\ log = << >>

DoStats ==
    /\ pc = "ready"
    /\ out' = measures(TSData(None, "1", inp.data, inp.bias_correct))
    /\ pc' = "done"
    /\ UNCHANGED <<inp, idx, summary, tidal_summary, log>>

SpecStats == InitStats /\ [][DoStats]_vars

PerfectModel ==
    \A k \in DOMAIN inp.data.rows :
        inp.data.rows[k].model = inp.data.rows[k].observation

ObservationNotConstant ==
    \E j, k \in DOMAIN inp.data.rows :
        inp.data.rows[j].observation # inp.data.rows[k].observation

\* C8: for a model equal to a non-constant observation elementwise the
\* statistics are bias = 0, RMSE = 0, normalized RMSE = 0, skill = 1 and
\* correlation = 1.
C8_PerfectModelStatistics ==
    (pc = "done" /\ PerfectModel /\ ObservationNotConstant) =>
        /\ out.kind = "ok"
        /\ IsZero(out.bias)
        /\ IsZero(out.rmse)
        /\ IsZero(out.nrmse)
        /\ IsOne(out.skill)
        /\ IsOne(out.corr)

\* the scenario [1,2,3,4,5] against itself has been evaluated
C8_Witness ==
    /\ pc = "done"
    /\ inp.data.rows = Scenario
    /\ ~inp.bias_correct
    /\ IsOne(out.skill)
    /\ IsOne(out.corr)

(***************************************************************************)
(* SpecCatalog: the constituent selection applied to frames of every       *)
(* duration around the thresholds.                                         *)
(***************************************************************************)
YearHours == 24 * 366

ThresholdHours == {MINHOURS[c] : c \in DOMAIN MINHOURS} \cup {YearHours}

CatalogDurations ==
    {0} \cup {60 * h + e : h \in ThresholdHours, e \in {-1, 0, 1}}

CatalogInputs ==
    {[noaa_constituents |-> names,
      data |-> [den |-> 1,
                rows |-> IF dur = 0
                         THEN <<[t |-> t0, model |-> 1, observation |-> 1]>>
                         ELSE <<[t |-> t0, model |-> 1, observation |-> 1],
                                [t |-> t0 + dur, model |-> 2, observation |-> 2]>>]] :
        t0 \in {0, 30}, dur \in CatalogDurations, names \in {pytides_noaa, upper_noaa}}

InitCatalog ==
    /\ pc = "ready"
    /\ inp \in CatalogInputs
    /\ out = None
    /\ idx = 0
    /\ summary = << >>
    /\ tidal_summary = << >>
    /\ log = << >>

DoCatalog ==
    /\ pc = "ready"
    /\ out' = tidal_analysis_constituents(TSData(None, "1", inp.data, FALSE),
                                          inp.noaa_constituents)
    /\ pc' = "done"
    /\ UNCHANGED <<inp, idx, summary, tidal_summary, log>>

SpecCatalog == InitCatalog /\ [][DoCatalog]_vars

DurationMinutes == inp.data.rows[Len(inp.data.rows)].t - inp.data.rows[1].t

Catalog == {inp.noaa_constituents[i] : i \in DOMAIN inp.noaa_constituents}

Selected == {out[i] : i \in DOMAIN out}

\* the constituent has a minimum-hours threshold in MINHOURS
HasThreshold(c) == UpperCase(c) \in DOMAIN MINHOURS

\* C9: the selected set is exactly the constituents whose MINHOURS threshold
\* is <= the duration in hours, plus the constituents with no threshold when
\* and only when the duration is at least 24*366 hours; it is empty below
\* every threshold.  The threshold of a constituent is the entry of MINHOURS
\* for it, however the library spells its name.
C9_ConstituentSelection ==
    pc = "done" =>
        /\ Selected =
               {c \in Catalog : HasThreshold(c)
                                 /\ 60 * MINHOURS[UpperCase(c)] <= DurationMinutes}
               \cup (IF DurationMinutes >= 60 * 24 * 366
                     THEN {c \in Catalog : ~HasThreshold(c)} ELSE {})
        /\ Len(out) = Cardinality(Selected)
        /\ (\A h \in ThresholdHours : DurationMinutes < 60 * h) => out = << >>

(***************************************************************************)
(* SpecPhase: the phase correction applied to the difference of every pair *)
(* of phases in [0, 360).                                                  *)
(***************************************************************************)
Phases == 0..359

InitPhase ==
    /\ pc = "ready"
    /\ inp \in [model : Phases, obs : Phases]
    /\ out = None
    /\ idx = 0
    /\ summary = << >>
    /\ tidal_summary = << >>
    /\ log = << >>

\* mae_phase: phase_correct(obs - model)
DoPhase ==
    /\ pc = "ready"
    /\ out' = phase_correct(ColSub(<<Entry(inp.obs)>>, <<Entry(inp.model)>>))
    /\ pc' = "done"
    /\ UNCHANGED <<inp, idx, summary, tidal_summary, log>>

SpecPhase == InitPhase /\ [][DoPhase]_vars

\* C5: circular_diff(a, b), the corrected difference from phase a to phase b,
\* is 2 for (359, 1) and -2 for (1, 359); it lies in [-180, 180], is congruent
\* modulo 360 to the difference it was computed from, and is negated when the
\* two phases are swapped (unless they are 180 apart).
C5_CircularDifference ==
    pc = "done" =>
        LET d == inp.obs - inp.model
            w == out[1].v
            swapped == phase_correct(<<Entry(-d)>>)[1].v
        IN  /\ (inp.model = 359 /\ inp.obs = 1) => w = 2
            /\ (inp.model = 1 /\ inp.obs = 359) => w = -2
            /\ -180 <= w /\ w <= 180
            /\ (w - d) % 360 = 0
            /\ Abs(d) # 180 => swapped = -w

(***************************************************************************)
(* SpecTidal: tidal_error applied to the pivot columns of one constituent  *)
(* over up to MaxStations stations.                                        *)
(***************************************************************************)
MaxStations == 3

Amplitudes == {3, 5}

TidalPhases == {0, 300}

\* the estimates of one station: model and observation amplitude and phase,
\* or the constituent not solved for the station
Estimates ==
    {e \in [Am : Amplitudes, Ao : Amplitudes, Pm : TidalPhases, Po : TidalPhases] :
        IsSquare(Term2(e.Am, e.Ao, phase_correct(<<Entry(e.Pm - e.Po)>>)[1].v))}

Absent == [Am |-> 0, Ao |-> 0, Pm |-> 0, Po |-> 0, absent |-> TRUE]

StationEntries == {[Am |-> e.Am, Ao |-> e.Ao, Pm |-> e.Pm, Po |-> e.Po, absent |-> FALSE] :
                      e \in Estimates} \cup {Absent}

TidalInputs == UNION {[1..n -> StationEntries] : n \in 1..MaxStations}

Col(field) ==
    [i \in DOMAIN inp |-> IF inp[i].absent THEN NaNEntry ELSE Entry(inp[i][field])]

InitTidal ==
    /\ pc = "ready"
    /\ inp \in TidalInputs
    /\ out = None
    /\ idx = 0
    /\ summary = << >>
    /\ tidal_summary = << >>
    /\ log = << >>

DoTidal ==
    /\ pc = "ready"
    /\ out' = tidal_error([phase |-> Col("Pm"), amplitude |-> Col("Am")],
                          [phase |-> Col("Po"), amplitude |-> Col("Ao")])
    /\ pc' = "done"
    /\ UNCHANGED <<inp, idx, summary, tidal_summary, log>>

SpecTidal == InitTidal /\ [][DoTidal]_vars

Present == {i \in DOMAIN inp : ~inp[i].absent}

RECURSIVE SumOver(_, _)
SumOver(f, S) ==
    IF S = {} THEN Rat(0, 1)
    ELSE LET i == CHOOSE j \in S : TRUE
         IN  RAdd(f[i], SumOver(f, S \ {i}))

\* the three per-station errors, for the stations where the constituent is present
PhaseError == [i \in Present |->
                  LET d == inp[i].Po - inp[i].Pm
                  IN  Rat(Min({Abs(d), 360 - Abs(d)}), 1)]

AmplitudeError == [i \in Present |-> Rat(Abs(inp[i].Ao - inp[i].Am), inp[i].Ao)]

\* sqrt(term_i) * sqrt(2)
RootTerm == [i \in Present |->
                LET d == inp[i].Pm - inp[i].Po
                IN  Rat(ISqrt(Term2(inp[i].Am, inp[i].Ao, Min({Abs(d), 360 - Abs(d)}))), 1)]

\* 2 * term_i
TwiceTerm == [i \in Present |->
                 LET d == inp[i].Pm - inp[i].Po
                 IN  Rat(Term2(inp[i].Am, inp[i].Ao, Min({Abs(d), 360 - Abs(d)})), 1)]

\* C6: a station where the constituent is absent contributes neither to the
\* sum nor to the count: each statistic is the mean over exactly the stations
\* where the constituent is present.
C6_AbsentConstituentSkipped ==
    (pc = "done" /\ out.kind = "row") =>
        /\ REq(out.MAE, RDivInt(SumOver(PhaseError, Present), Cardinality(Present)))
        /\ REq(out.MRE, RDivInt(SumOver(AmplitudeError, Present), Cardinality(Present)))
        /\ REq(out.MRMSE, RDivInt(SumOver(RootTerm, Present), Cardinality(Present)))

TermsDiffer == \E i, j \in Present : TwiceTerm[i] # TwiceTerm[j]

\* C7 as claimed: with two or more pairs whose terms differ, MRMSE is the
\* square root of the mean of the terms: MRMSE^2 = mean(term), that is
\* (n/d)^2 / 2 = sum(2 term) / (2 N).
C7_SqrtOfMean ==
    (pc = "done" /\ out.kind = "row" /\ Present = DOMAIN inp /\ TermsDiffer) =>
        out.MRMSE.n * out.MRMSE.n * Len(inp)
            = out.MRMSE.d * out.MRMSE.d * SumOver(TwiceTerm, Present).n

\* C7 as amended: MRMSE is the mean of the square roots of the terms, the
\* root taken per pair before averaging: sum_i sqrt(term_i) / len, where a
\* pair with a missing entry adds nothing to the sum and counts in len.
C7_MeanOfSqrt ==
    (pc = "done" /\ out.kind = "row") =>
        REq(out.MRMSE, RDivInt(SumOver(RootTerm, Present), Len(inp)))

\* two pairs with different terms have been averaged
C7_Witness ==
    /\ pc = "done"
    /\ out.kind = "row"
    /\ Len(inp) >= 2
    /\ Present = DOMAIN inp
    /\ TermsDiffer
    /\ out.MRMSE.n > 0

(***************************************************************************)
(* Spec: the station loop of main.  The run input is the station list of   *)
(* the correspondence table with, per station, whether the table names a   *)
(* data file, whether the file exists, the two series as read, and whether *)
(* the harmonic solver (pytides, Tide.decompose) succeeds on the station   *)
(* and the number of cycles n_period it asks of a constituent (0: every    *)
(* requested constituent is solved); and the options --cut and --tide.     *)
(* Stations are identified by their position in the list.                  *)
(***************************************************************************)
NStations == 3

SixHours == 6 * 60

ModelAt(ts) == [k \in DOMAIN ts |-> Sample(ts[k], ModelValue(ts[k]))]

ObsAt(ts) == [k \in DOMAIN ts |-> Sample(ts[k], ObsValue(ts[k]))]

Station(has_name, is_file, model, obs, solver_ok, n_period) ==
    [has_name |-> has_name, is_file |-> is_file, model |-> model, obs |-> obs,
     solver_ok |-> solver_ok, n_period |-> n_period]

SixHourly == GenTimes(SixHours, 0, 1, 1, 4)

StationCases ==
    { Station(FALSE, FALSE, << >>, << >>, TRUE, 0),
      Station(TRUE, FALSE, << >>, << >>, TRUE, 0),
      \* both series six-hourly on one grid
      Station(TRUE, TRUE, ModelAt(SixHourly), ObsAt(SixHourly), TRUE, 0),
      Station(TRUE, TRUE, ModelAt(SixHourly), ObsAt(SixHourly), FALSE, 0),
      \* the same, the solver keeping the constituents of two cycles or more
      Station(TRUE, TRUE, ModelAt(SixHourly), ObsAt(SixHourly), TRUE, 2),
      \* a dry station: the model is NaN throughout
      Station(TRUE, TRUE, [k \in 1..3 |-> Missing(SixHourly[k])], ObsAt(SixHourly), TRUE, 0),
      \* a model record of one sample
      Station(TRUE, TRUE, ModelAt(GenTimes(SixHours, 0, 1, 1, 1)), ObsAt(SixHourly), TRUE, 0),
      \* no observation in the model range
      Station(TRUE, TRUE, ModelAt(SixHourly), << >>, TRUE, 0),
      \* an irregular model and observations between its timestamps
      Station(TRUE, TRUE, ModelAt(GenTimes(SixHours, 0, 1, 2, 4)),
              ObsAt(<<180, 540>>), TRUE, 0),
      \* daily observations: one common timestamp
      Station(TRUE, TRUE, ModelAt(SixHourly), ObsAt(<<0, 1440>>), TRUE, 0) }

RunInputs ==
    [stations : [1..NStations -> StationCases], cut : Cuts, tide : BOOLEAN,
     bias_correct : {FALSE}, noaa_constituents : {pytides_noaa}]

Init ==
    /\ pc = "loop"
    /\ inp \in RunInputs
    /\ out = None
    /\ idx = 0
    /\ summary = << >>
    /\ tidal_summary = << >>
    /\ log = << >>

\* the station of the current iteration, its alignment and its TSData
Cur == inp.stations[idx + 1]

InLoop == pc = "loop" /\ idx < Len(inp.stations)

HasData == InLoop /\ Cur.has_name /\ Cur.is_file

CurAligned == AlignStation(Cur.model, Cur.obs, inp.cut)

CurData == TSData(None, idx + 1, Frame(CurAligned.joined), inp.bias_correct)

Raised(exception, station) == [exception |-> exception, station |-> station]

\* if not fn.name: continue
SkipNoName ==
    /\ InLoop
    /\ ~Cur.has_name
    /\ idx' = idx + 1
    /\ UNCHANGED <<pc, inp, out, summary, tidal_summary, log>>

\* if not path.is_file(): print("Skipping", ...); continue
SkipNoFile ==
    /\ InLoop
    /\ Cur.has_name /\ ~Cur.is_file
    /\ log' = Append(log, <<"Skipping (data file not found)", idx + 1>>)
    /\ idx' = idx + 1
    /\ UNCHANGED <<pc, inp, out, summary, tidal_summary>>

\* the two silent continues: all-NaN model, empty or one-sample observation
SkipSilently ==
    /\ HasData
    /\ CurAligned.kind \in {"skip_model_nan", "skip_obs"}
    /\ idx' = idx + 1
    /\ UNCHANGED <<pc, inp, out, summary, tidal_summary, log>>

\* the empty-join skip taken only after a summary row was appended
SkipEmptyJoin_after_append ==
    /\ HasData
    /\ CurAligned.kind = "skip_join"
    /\ log' = Append(log, <<"Joined dataframe is empty for station", idx + 1>>)
    /\ summary' = Append(summary, [station_id |-> idx + 1, measures |-> None])
    /\ idx' = idx + 1
    /\ UNCHANGED <<pc, inp, out, tidal_summary>>

\* if joined.empty: print(...); continue
SkipEmptyJoin ==
    /\ HasData
    /\ CurAligned.kind = "skip_join"
    /\ log' = Append(log, <<"Joined dataframe is empty for station", idx + 1>>)
    /\ idx' = idx + 1
    /\ UNCHANGED <<pc, inp, out, summary, tidal_summary>>

\* model.index[1] on a model of fewer than 2 samples: the exception leaves main
RaiseIndexError ==
    /\ HasData
    /\ CurAligned.kind = "IndexError"
    /\ pc' = "raised"
    /\ out' = Raised("IndexError", idx + 1)
    /\ UNCHANGED <<inp, idx, summary, tidal_summary, log>>

\* d.corr() on a frame of one row: pearsonr raises, after the station's csv
RaiseValueError ==
    /\ HasData
    /\ CurAligned.kind = "ok"
    /\ measures(CurData).kind = "ValueError"
    /\ log' = Append(log, <<"writing and plotting", idx + 1>>)
    /\ pc' = "raised"
    /\ out' = Raised("ValueError", idx + 1)
    /\ UNCHANGED <<inp, idx, summary, tidal_summary>>

SummaryRow == [station_id |-> idx + 1, measures |-> measures(CurData)]

\* tidal_analysis raises inside Tide.decompose, after summary.append
RaiseInTidalAnalysis ==
    /\ HasData
    /\ CurAligned.kind = "ok"
    /\ measures(CurData).kind = "ok"
    /\ inp.tide /\ ~Cur.solver_ok
    /\ log' = Append(log, <<"writing and plotting", idx + 1>>)
    /\ summary' = Append(summary, SummaryRow)
    /\ pc' = "raised"
    /\ out' = Raised("DecomposeError", idx + 1)
    /\ UNCHANGED <<inp, idx, tidal_summary>>

\* the station is compared: a summary row and, with --tide, a pair of tables
ProcessStation ==
    /\ HasData
    /\ CurAligned.kind = "ok"
    /\ measures(CurData).kind = "ok"
    /\ inp.tide => Cur.solver_ok
    /\ log' = Append(log, <<"writing and plotting", idx + 1>>)
    /\ summary' = Append(summary, SummaryRow)
    /\ tidal_summary' =
           IF inp.tide
           THEN Append(tidal_summary,
                       [station |-> idx + 1,
                        constituents |->
                            tidal_analysis_constituents(CurData, inp.noaa_constituents),
                        plotted |-> solved_plotted(CurData, inp.noaa_constituents,
                                                   Cur.n_period)])
           ELSE tidal_summary
    /\ idx' = idx + 1
    /\ UNCHANGED <<pc, inp, out>>

\* sel_idx = set(summary_df["idx"]): the positions 0 .. len(summary) - 1
sel_idx == {i - 1 : i \in DOMAIN summary}

\* amplitude_plot: pearsonr on the amplitudes of the stations that have the
\* constituent raises ValueError when there is one station only
SolvedAt(c) == {i \in sel_idx : c \in tidal_summary[i + 1].plotted}

PlotRaises ==
    \E k \in DOMAIN PLOT_CONSTITUENTS : Cardinality(SolvedAt(PLOT_CONSTITUENTS[k])) = 1

\* after the loop: summary.csv, and with --tide the tables of the stations
\* tidal_summary[i], i in sel_idx, amplitude_plot and tidal_error
Finish ==
    /\ pc = "loop" /\ idx = Len(inp.stations)
    /\ ~inp.tide \/ (tidal_summary # << >> /\ ~PlotRaises)
    /\ pc' = "done"
    /\ out' = [summary_csv |-> summary,
               tidal_tables |-> IF inp.tide
                                THEN {tidal_summary[i + 1] : i \in sel_idx}
                                ELSE {}]
    /\ UNCHANGED <<inp, idx, summary, tidal_summary, log>>

\* amplitude_plot raises after summary.csv is written and the tables built
RaiseInAmplitudePlot ==
    /\ pc = "loop" /\ idx = Len(inp.stations)
    /\ inp.tide /\ tidal_summary # << >> /\ PlotRaises
    /\ pc' = "raised"
    /\ out' = Raised("ValueError", 0)
    /\ UNCHANGED <<inp, idx, summary, tidal_summary, log>>

\* pd.concat of an empty list raises ValueError, after summary.csv is written
FinishRaise ==
    /\ pc = "loop" /\ idx = Len(inp.stations)
    /\ inp.tide /\ tidal_summary = << >>
    /\ pc' = "raised"
    /\ out' = Raised("ValueError", 0)
    /\ UNCHANGED <<inp, idx, summary, tidal_summary, log>>

Next ==
    \/ SkipNoName
    \/ SkipNoFile
    \/ SkipSilently
    \/ SkipEmptyJoin
    \/ RaiseIndexError
    \/ RaiseValueError
    \/ RaiseInTidalAnalysis
    \/ ProcessStation
    \/ Finish
    \/ RaiseInAmplitudePlot
    \/ FinishRaise

Spec == Init /\ [][Next]_vars

\* station i is compared without any failure when its turn comes
StationSucceeds(i) ==
    LET st == inp.stations[i]
        al == AlignStation(st.model, st.obs, inp.cut)
    IN  /\ st.has_name /\ st.is_file
        /\ al.kind = "ok"
        /\ measures(TSData(None, i, Frame(al.joined), inp.bias_correct)).kind = "ok"
        /\ inp.tide => st.solver_ok

SummaryStations == {summary[k].station_id : k \in DOMAIN summary}

\* C3: a failure while processing one station never ends the run: no
\* exception raised for a station leaves the loop, and when the run has
\* stopped every station has been visited and the summary holds a row for
\* every station that succeeded.
C3_StationFailureIsolated ==
    /\ pc = "raised" => out.station = 0
    /\ pc \in {"done", "raised"} =>
           /\ idx = Len(inp.stations)
           /\ \A i \in DOMAIN inp.stations : StationSucceeds(i) => i \in SummaryStations

\* the stations for which a line naming a cause of the skip was printed
ReportedSkipped ==
    {log[k][2] : k \in {j \in DOMAIN log :
                           log[j][1] \in {"Skipping (data file not found)",
                                          "Joined dataframe is empty for station"}}}

\* C11: at the end of the run no station has been dropped silently: each
\* station of the table is either in the summary or reported as skipped with
\* the cause of the skip.
C11_NoSilentSkip ==
    pc = "done" =>
        \A i \in DOMAIN inp.stations : i \in SummaryStations \/ i \in ReportedSkipped

\* the native sampling interval of the lower-resolution series: the larger
\* of the two modes of consecutive timestamp differences, taken on the series
\* as they are aligned (model after the cut, observation within the range)
LowerResolutionInterval == Max({mode(out.model), mode(out.obs)})

\* C12: the spacing of the common grid equals the native sampling interval of
\* the lower-resolution series, the native interval being the mode of the
\* consecutive timestamp differences, also for a series whose first step is
\* not the modal one.
C12_GridSpacingIsModalInterval ==
    Aligned =>
        \A k \in 1..(Len(out.joined) - 1) :
            JoinedTimes[k + 1] - JoinedTimes[k] = LowerResolutionInterval

TableStations == {t.station : t \in out.tidal_tables}

\* C13: with tidal solving enabled, after every completed iteration of the
\* station loop summary and tidal_summary have the same length and their
\* entries at the same index belong to the same station; after the loop
\* every index of sel_idx is an index of tidal_summary and the tidal tables
\* are built from exactly the stations of the summary.
C13_SummariesInStep ==
    (inp.tide /\ pc \in {"loop", "done"}) =>
        /\ Len(tidal_summary) = Len(summary)
        /\ \A k \in DOMAIN summary : tidal_summary[k].station = summary[k].station_id
        /\ \A i \in sel_idx : i + 1 \in DOMAIN tidal_summary
        /\ pc = "done" => TableStations = SummaryStations

\* a run with --tide has ended with two compared stations and a skipped one
C13_Witness ==
    /\ pc = "done"
    /\ inp.tide
    /\ Len(summary) = 2
    /\ Len(summary) < Len(inp.stations)
    /\ TableStations = SummaryStations
    /\ \E k \in DOMAIN log : log[k][1] = "Joined dataframe is empty for station"

====
